---- MODULE Spec2Model ----
(***************************************************************************)
(* AlgoliaSearch/models.py: the AlgoliaIndex binding, its document         *)
(* builder, the per-object operations and the two full rebuilds            *)
(* (index_all, reindex_all), run against a search engine that applies the  *)
(* writes submitted to one index asynchronously, in submission order.      *)
(***************************************************************************)
EXTENDS Integers, Sequences, FiniteSets, TLC

\* ------------------------------------------------------------------ bounds
\* longest record stream (model.objects.all())
MaxN == 3
\* largest batch_size
MaxB == 3
\* longest declared `fields` tuple of the per-object specification
MaxFields == 2
\* longest tuple a geo attribute resolves to
MaxGeoLen == 3

Procs == {1, 2}

\* ------------------------------------------------------------ Python values
\* A Python value is a tagged record: a plain value, a bound method (callable,
\* returning `ret`), or a tuple of values.
PyVal(n) == [ty |-> "val", v |-> n]
PyMethod(r) == [ty |-> "method", ret |-> r]
PyTuple(s) == [ty |-> "tuple", items |-> s]
PyNone == [ty |-> "None"]
PyDict(d) == [ty |-> "dict", d |-> d]
\* a dict whose values are never None (settings, a built document) is the
\* function itself
EmptyDict == <<>>

callable(attr) == attr.ty = "method"
Call(attr) == attr.ret
\* bool(x) of a save_objects result: None and {} are falsy.
Truthy(x) == x.ty = "dict" /\ DOMAIN x.d # {}

\* attr[i] for the 0-based index i: "TypeError" on a value that is not
\* subscriptable, "IndexError" past the end of a tuple.
SubscriptExc(attr, i) ==
    IF attr.ty # "tuple" THEN "TypeError"
    ELSE IF Len(attr.items) <= i THEN "IndexError"
    ELSE "none"
Subscript(attr, i) == attr.items[i + 1]

\* tmp[k] = v on a dict
SetItem(tmp, k, v) == [x \in (DOMAIN tmp) \cup {k} |-> IF x = k THEN v ELSE tmp[x]]

\* --------------------------------------------------------------- variables
VARIABLES
    declared_name, django_settings,
    index_name, index, tmp_index, fields, geo_field, settings,
    objects,
    store, queue, published, next_task, engine_mode,
    op, instance, batch_size, pc, pos, batch, counts, result, obj, ret, exc,
    calls, first_run

binding_vars == <<declared_name, django_settings,
                  index_name, index, tmp_index, fields, geo_field, settings>>
engine_vars == <<store, queue, published, next_task>>
local_vars == <<op, instance, batch_size, pc, pos, batch, counts, result, obj, ret, exc>>
vars == <<declared_name, django_settings,
          index_name, index, tmp_index, fields, geo_field, settings, objects,
          store, queue, published, next_task, engine_mode,
          op, instance, batch_size, pc, pos, batch, counts, result, obj, ret, exc,
          calls, first_run>>

\* ---------------------------------------------------------- name resolution
\* A Python string is a sequence of tokens; '' and None are both <<>> (falsy).
TmpName(name) == name \o <<"_tmp">>

\* mutant of set_index_name: the model's name is not taken when no index_name
\* is declared
set_index_name_NoDefault(declared, model_name, prefix, suffix) ==
    LET n2 == IF prefix # <<>> THEN prefix \o <<"_">> \o declared ELSE declared
    IN  IF suffix # <<>> THEN n2 \o <<"_">> \o suffix ELSE n2

set_index_name(declared, model_name, prefix, suffix) ==
    LET n1 == IF declared = <<>> THEN model_name ELSE declared
        n2 == IF prefix # <<>> THEN prefix \o <<"_">> \o n1 ELSE n1
    IN  IF suffix # <<>> THEN n2 \o <<"_">> \o suffix ELSE n2

\* -------------------------------------------------------- document builder
\* for field in self.fields: tmp[field] = attr() if callable(attr) else attr
RECURSIVE build_fields(_, _, _, _)
build_fields(tmp, inst, fs, i) ==
    IF i > Len(fs) THEN tmp
    ELSE LET attr == inst[fs[i]]
             val == IF callable(attr) THEN Call(attr) ELSE attr
         IN  build_fields(SetItem(tmp, fs[i], val), inst, fs, i + 1)

\* the resolved geo attribute
geo_attr(inst, gf) == IF callable(inst[gf]) THEN Call(inst[gf]) ELSE inst[gf]

\* geo_field is an attribute name; "" stands for None (falsy).
\* the exception __build_object raises on inst ("none" when it returns)
build_exc(inst, fs, gf) ==
    IF gf = "" THEN "none"
    ELSE IF SubscriptExc(geo_attr(inst, gf), 0) # "none"
         THEN SubscriptExc(geo_attr(inst, gf), 0)
    ELSE SubscriptExc(geo_attr(inst, gf), 1)

\* the dict __build_object returns on inst (when it raises nothing)
build_object(inst, fs, gf) ==
    LET tmp == build_fields([k \in {"objectID"} |-> inst["pk"]], inst, fs, 1)
    IN  IF gf = "" THEN tmp
        ELSE SetItem(tmp, "_geoloc",
                     [lat |-> Subscript(geo_attr(inst, gf), 0),
                      lng |-> Subscript(geo_attr(inst, gf), 1)])

\* ------------------------------------------------------------ search engine
\* One remote index: its documents (keyed by objectID) and its settings.
EmptyIndex == [objs |-> {}, settings |-> EmptyDict]

Upsert(objs, d) == {o \in objs : o["objectID"] # d["objectID"]} \cup {d}

RECURSIVE UpsertAll(_, _, _)
UpsertAll(objs, b, i) ==
    IF i > Len(b) THEN objs ELSE UpsertAll(Upsert(objs, b[i]), b, i + 1)

MergeSettings(old, new) ==
    [k \in (DOMAIN old) \cup (DOMAIN new) |-> IF k \in DOMAIN new THEN new[k] ELSE old[k]]

\* the effect of one queued write on an index
ApplyWrite(ix, e) ==
    CASE e.fn = "set_settings" -> [ix EXCEPT !.settings = MergeSettings(@, e.settings)]
      [] e.fn = "clear_index" -> [ix EXCEPT !.objs = {}]
      [] e.fn = "save_objects" -> [ix EXCEPT !.objs = UpsertAll(@, e.batch, 1)]
      [] e.fn = "save_object" -> [ix EXCEPT !.objs = UpsertAll(@, e.batch, 1)]
      [] e.fn = "delete_object" -> [ix EXCEPT !.objs = {o \in @ : o["objectID"] # e.id}]

\* A write (set_settings, clear_index, save_objects, save_object,
\* delete_object) is queued on its index under a fresh task id.
Write(fn, b, st, id) == [fn |-> fn, batch |-> b, settings |-> st, id |-> id]

Submit(n, e) ==
    /\ queue' = [queue EXCEPT ![n] = Append(@, [w |-> e, taskID |-> next_task])]
    /\ next_task' = next_task + 1
    /\ UNCHANGED <<store, published>>

\* The engine applies the oldest pending write of index n and publishes its task.
EngineApply(n) ==
    /\ queue[n] # <<>>
    /\ store' = [store EXCEPT ![n] = ApplyWrite(@, Head(queue[n]).w)]
    /\ published' = published \cup {Head(queue[n]).taskID}
    /\ queue' = [queue EXCEPT ![n] = Tail(@)]
    /\ UNCHANGED <<next_task, engine_mode, binding_vars, objects, first_run, local_vars, calls>>

\* move_index(src, dst): dst takes the documents and settings of src, which
\* ceases to exist, in one step.
MoveIndex(src, dst) ==
    /\ store' = [store EXCEPT ![dst] = store[src], ![src] = EmptyIndex]
    /\ UNCHANGED <<queue, published, next_task>>

\* what save_objects returns for the task t it was queued under
SaveResults(t) ==
    IF engine_mode = "tasks" THEN {PyDict([taskID |-> t])}
    ELSE {PyDict([taskID |-> t]), PyNone, PyDict(EmptyDict)}

\* ------------------------------------------------------------- call history
\* Every client call made, in order; `raised` when the call raised instead of
\* taking effect.
Called(p, fn, n, dst, b, t, raised) ==
    [proc |-> p, fn |-> fn, index |-> n, dst |-> dst, batch |-> b, task |-> t,
     id |-> PyNone, returned |-> PyNone, raised |-> raised]

Log(entry) == calls' = Append(calls, entry)

Raise(p, what) ==
    /\ pc' = [pc EXCEPT ![p] = "failed"]
    /\ exc' = [exc EXCEPT ![p] = what]

\* mutant of IA_Settings: the settings are pushed even when empty
IA_Settings_Unguarded(p) ==
    /\ op[p] = "index_all" /\ pc[p] = "settings"
    /\ IF FALSE
       THEN /\ pc' = [pc EXCEPT ![p] = "clear"]
            /\ UNCHANGED <<engine_vars, calls, exc>>
       ELSE \E raised \in BOOLEAN :
            /\ Log(Called(p, "set_settings", index, <<>>, <<>>, -1, raised))
            /\ IF raised
               THEN Raise(p, "set_settings") /\ UNCHANGED engine_vars
               ELSE /\ Submit(index, Write("set_settings", <<>>, settings, PyNone))
                    /\ pc' = [pc EXCEPT ![p] = "clear"]
                    /\ UNCHANGED exc
    /\ UNCHANGED <<binding_vars, objects, first_run, engine_mode, op, instance, batch_size,
                   pos, batch, counts, result, obj, ret>>

\* ------------------------------------------------------------- index_all
\* self.set_settings(): pushed to the primary only when settings is non-empty
IA_Settings(p) ==
    /\ op[p] = "index_all" /\ pc[p] = "settings"
    /\ IF DOMAIN settings = {}
       THEN /\ pc' = [pc EXCEPT ![p] = "clear"]
            /\ UNCHANGED <<engine_vars, calls, exc>>
       ELSE \E raised \in BOOLEAN :
            /\ Log(Called(p, "set_settings", index, <<>>, <<>>, -1, raised))
            /\ IF raised
               THEN Raise(p, "set_settings") /\ UNCHANGED engine_vars
               ELSE /\ Submit(index, Write("set_settings", <<>>, settings, PyNone))
                    /\ pc' = [pc EXCEPT ![p] = "clear"]
                    /\ UNCHANGED exc
    /\ UNCHANGED <<binding_vars, objects, first_run, engine_mode, op, instance, batch_size,
                   pos, batch, counts, result, obj, ret>>

\* self.clear_index()
IA_Clear(p) ==
    /\ op[p] = "index_all" /\ pc[p] = "clear"
    /\ \E raised \in BOOLEAN :
        /\ Log(Called(p, "clear_index", index, <<>>, <<>>, -1, raised))
        /\ IF raised
           THEN Raise(p, "clear_index") /\ UNCHANGED engine_vars
           ELSE /\ Submit(index, Write("clear_index", <<>>, EmptyDict, PyNone))
                /\ pc' = [pc EXCEPT ![p] = "loop"]
                /\ UNCHANGED exc
    /\ UNCHANGED <<binding_vars, objects, first_run, engine_mode, op, instance, batch_size,
                   pos, batch, counts, result, obj, ret>>

\* one turn of the for loop up to the batch-size test: the next instance is
\* read, built and appended
IA_Next(p) ==
    /\ op[p] = "index_all" /\ pc[p] = "loop" /\ pos[p] < Len(objects)
    /\ pos' = [pos EXCEPT ![p] = @ + 1]
    /\ LET inst == objects[pos[p] + 1]
       IN  IF build_exc(inst, fields, geo_field) # "none"
           THEN /\ Raise(p, "build")
                /\ UNCHANGED <<batch, counts>>
           ELSE LET b == Append(batch[p], build_object(inst, fields, geo_field))
                IN  /\ batch' = [batch EXCEPT ![p] = b]
                    /\ IF Len(b) >= batch_size[p]
                       THEN /\ pc' = [pc EXCEPT ![p] = "flush"]
                            /\ UNCHANGED counts
                       ELSE /\ counts' = [counts EXCEPT ![p] = @ + 1]
                            /\ UNCHANGED pc
                    /\ UNCHANGED exc
    /\ UNCHANGED <<binding_vars, objects, first_run, engine_vars, engine_mode, op, instance,
                   batch_size, result, obj, ret, calls>>

\* mutant of IA_Flush: a failed flush is swallowed and the loop goes on
IA_Flush_Swallow(p) ==
    /\ op[p] = "index_all" /\ pc[p] = "flush"
    /\ \E raised \in BOOLEAN :
        /\ Log(Called(p, "save_objects", index, <<>>, batch[p],
                      IF raised THEN -1 ELSE next_task, raised))
        /\ IF raised
           THEN /\ pc' = [pc EXCEPT ![p] = "loop"]
                /\ UNCHANGED <<engine_vars, batch, counts, exc>>
           ELSE /\ Submit(index, Write("save_objects", batch[p], EmptyDict, PyNone))
                /\ batch' = [batch EXCEPT ![p] = <<>>]
                /\ counts' = [counts EXCEPT ![p] = @ + 1]
                /\ pc' = [pc EXCEPT ![p] = "loop"]
                /\ UNCHANGED exc
    /\ UNCHANGED <<binding_vars, objects, first_run, engine_mode, op, instance, batch_size,
                   pos, result, obj, ret>>

\* the full batch is sent: self.__index.save_objects(batch); batch = []
IA_Flush(p) ==
    /\ op[p] = "index_all" /\ pc[p] = "flush"
    /\ \E raised \in BOOLEAN :
        /\ Log(Called(p, "save_objects", index, <<>>, batch[p],
                      IF raised THEN -1 ELSE next_task, raised))
        /\ IF raised
           THEN Raise(p, "save_objects") /\ UNCHANGED <<engine_vars, batch, counts>>
           ELSE /\ Submit(index, Write("save_objects", batch[p], EmptyDict, PyNone))
                /\ batch' = [batch EXCEPT ![p] = <<>>]
                /\ counts' = [counts EXCEPT ![p] = @ + 1]
                /\ pc' = [pc EXCEPT ![p] = "loop"]
                /\ UNCHANGED exc
    /\ UNCHANGED <<binding_vars, objects, first_run, engine_mode, op, instance, batch_size,
                   pos, result, obj, ret>>

\* mutant of IA_Final: the rest of the batch is not sent
IA_Final_NoFlush(p) ==
    /\ op[p] = "index_all" /\ pc[p] = "loop" /\ pos[p] = Len(objects)
    /\ IF FALSE
       THEN \E raised \in BOOLEAN :
            /\ Log(Called(p, "save_objects", index, <<>>, batch[p],
                          IF raised THEN -1 ELSE next_task, raised))
            /\ IF raised
               THEN Raise(p, "save_objects") /\ UNCHANGED <<engine_vars, ret>>
               ELSE /\ Submit(index, Write("save_objects", batch[p], EmptyDict, PyNone))
                    /\ pc' = [pc EXCEPT ![p] = "done"]
                    /\ ret' = [ret EXCEPT ![p] = counts[p]]
                    /\ UNCHANGED exc
       ELSE /\ pc' = [pc EXCEPT ![p] = "done"]
            /\ ret' = [ret EXCEPT ![p] = counts[p]]
            /\ UNCHANGED <<engine_vars, calls, exc>>
    /\ UNCHANGED <<binding_vars, objects, first_run, engine_mode, op, instance, batch_size,
                   pos, batch, counts, result, obj>>

\* the stream is exhausted: the rest of the batch is sent, counts is returned
IA_Final(p) ==
    /\ op[p] = "index_all" /\ pc[p] = "loop" /\ pos[p] = Len(objects)
    /\ IF Len(batch[p]) > 0
       THEN \E raised \in BOOLEAN :
            /\ Log(Called(p, "save_objects", index, <<>>, batch[p],
                          IF raised THEN -1 ELSE next_task, raised))
            /\ IF raised
               THEN Raise(p, "save_objects") /\ UNCHANGED <<engine_vars, ret>>
               ELSE /\ Submit(index, Write("save_objects", batch[p], EmptyDict, PyNone))
                    /\ pc' = [pc EXCEPT ![p] = "done"]
                    /\ ret' = [ret EXCEPT ![p] = counts[p]]
                    /\ UNCHANGED exc
       ELSE /\ pc' = [pc EXCEPT ![p] = "done"]
            /\ ret' = [ret EXCEPT ![p] = counts[p]]
            /\ UNCHANGED <<engine_vars, calls, exc>>
    /\ UNCHANGED <<binding_vars, objects, first_run, engine_mode, op, instance, batch_size,
                   pos, batch, counts, result, obj>>

\* mutant of RA_Settings: the settings go to the primary handle
RA_Settings_Primary(p) ==
    /\ op[p] = "reindex_all" /\ pc[p] = "settings"
    /\ IF DOMAIN settings = {}
       THEN /\ pc' = [pc EXCEPT ![p] = "clear"]
            /\ UNCHANGED <<engine_vars, calls, exc>>
       ELSE \E raised \in BOOLEAN :
            /\ Log(Called(p, "set_settings", index, <<>>, <<>>, -1, raised))
            /\ IF raised
               THEN Raise(p, "set_settings") /\ UNCHANGED engine_vars
               ELSE /\ Submit(index, Write("set_settings", <<>>, settings, PyNone))
                    /\ pc' = [pc EXCEPT ![p] = "clear"]
                    /\ UNCHANGED exc
    /\ UNCHANGED <<binding_vars, objects, first_run, engine_mode, op, instance, batch_size,
                   pos, batch, counts, result, obj, ret>>

\* ------------------------------------------------------------ reindex_all
\* if self.settings: self.__tmp_index.set_settings(self.settings)
RA_Settings(p) ==
    /\ op[p] = "reindex_all" /\ pc[p] = "settings"
    /\ IF DOMAIN settings = {}
       THEN /\ pc' = [pc EXCEPT ![p] = "clear"]
            /\ UNCHANGED <<engine_vars, calls, exc>>
       ELSE \E raised \in BOOLEAN :
            /\ Log(Called(p, "set_settings", tmp_index, <<>>, <<>>, -1, raised))
            /\ IF raised
               THEN Raise(p, "set_settings") /\ UNCHANGED engine_vars
               ELSE /\ Submit(tmp_index, Write("set_settings", <<>>, settings, PyNone))
                    /\ pc' = [pc EXCEPT ![p] = "clear"]
                    /\ UNCHANGED exc
    /\ UNCHANGED <<binding_vars, objects, first_run, engine_mode, op, instance, batch_size,
                   pos, batch, counts, result, obj, ret>>

\* mutant of RA_Clear: the clear goes to the primary handle
RA_Clear_Primary(p) ==
    /\ op[p] = "reindex_all" /\ pc[p] = "clear"
    /\ \E raised \in BOOLEAN :
        /\ Log(Called(p, "clear_index", index, <<>>, <<>>, -1, raised))
        /\ IF raised
           THEN Raise(p, "clear_index") /\ UNCHANGED engine_vars
           ELSE /\ Submit(index, Write("clear_index", <<>>, EmptyDict, PyNone))
                /\ pc' = [pc EXCEPT ![p] = "loop"]
                /\ UNCHANGED exc
    /\ UNCHANGED <<binding_vars, objects, first_run, engine_mode, op, instance, batch_size,
                   pos, batch, counts, result, obj, ret>>

\* self.__tmp_index.clear_index()
RA_Clear(p) ==
    /\ op[p] = "reindex_all" /\ pc[p] = "clear"
    /\ \E raised \in BOOLEAN :
        /\ Log(Called(p, "clear_index", tmp_index, <<>>, <<>>, -1, raised))
        /\ IF raised
           THEN Raise(p, "clear_index") /\ UNCHANGED engine_vars
           ELSE /\ Submit(tmp_index, Write("clear_index", <<>>, EmptyDict, PyNone))
                /\ pc' = [pc EXCEPT ![p] = "loop"]
                /\ UNCHANGED exc
    /\ UNCHANGED <<binding_vars, objects, first_run, engine_mode, op, instance, batch_size,
                   pos, batch, counts, result, obj, ret>>

\* one turn of the for loop up to the batch-size test
RA_Next(p) ==
    /\ op[p] = "reindex_all" /\ pc[p] = "loop" /\ pos[p] < Len(objects)
    /\ pos' = [pos EXCEPT ![p] = @ + 1]
    /\ LET inst == objects[pos[p] + 1]
       IN  IF build_exc(inst, fields, geo_field) # "none"
           THEN /\ Raise(p, "build")
                /\ UNCHANGED <<batch, counts>>
           ELSE LET b == Append(batch[p], build_object(inst, fields, geo_field))
                IN  /\ batch' = [batch EXCEPT ![p] = b]
                    /\ IF Len(b) >= batch_size[p]
                       THEN /\ pc' = [pc EXCEPT ![p] = "flush"]
                            /\ UNCHANGED counts
                       ELSE /\ counts' = [counts EXCEPT ![p] = @ + 1]
                            /\ UNCHANGED pc
                    /\ UNCHANGED exc
    /\ UNCHANGED <<binding_vars, objects, first_run, engine_vars, engine_mode, op, instance,
                   batch_size, result, obj, ret, calls>>

\* mutant of RA_Flush: the full batch goes to the primary handle
RA_Flush_Primary(p) ==
    /\ op[p] = "reindex_all" /\ pc[p] = "flush"
    /\ \E raised \in BOOLEAN :
        IF raised
        THEN /\ Log(Called(p, "save_objects", index, <<>>, batch[p], -1, TRUE))
             /\ Raise(p, "save_objects")
             /\ UNCHANGED <<engine_vars, batch, counts, result>>
        ELSE /\ Submit(index, Write("save_objects", batch[p], EmptyDict, PyNone))
             /\ \E r \in SaveResults(next_task) :
                 /\ Log([Called(p, "save_objects", index, <<>>, batch[p], next_task,
                                FALSE) EXCEPT !.returned = r])
                 /\ result' = [result EXCEPT ![p] = r]
             /\ batch' = [batch EXCEPT ![p] = <<>>]
             /\ counts' = [counts EXCEPT ![p] = @ + 1]
             /\ pc' = [pc EXCEPT ![p] = "loop"]
             /\ UNCHANGED exc
    /\ UNCHANGED <<binding_vars, objects, first_run, engine_mode, op, instance, batch_size,
                   pos, obj, ret>>

\* result = self.__tmp_index.save_objects(batch); batch = []
RA_Flush(p) ==
    /\ op[p] = "reindex_all" /\ pc[p] = "flush"
    /\ \E raised \in BOOLEAN :
        IF raised
        THEN /\ Log(Called(p, "save_objects", tmp_index, <<>>, batch[p], -1, TRUE))
             /\ Raise(p, "save_objects")
             /\ UNCHANGED <<engine_vars, batch, counts, result>>
        ELSE /\ Submit(tmp_index, Write("save_objects", batch[p], EmptyDict, PyNone))
             /\ \E r \in SaveResults(next_task) :
                 /\ Log([Called(p, "save_objects", tmp_index, <<>>, batch[p], next_task,
                                FALSE) EXCEPT !.returned = r])
                 /\ result' = [result EXCEPT ![p] = r]
             /\ batch' = [batch EXCEPT ![p] = <<>>]
             /\ counts' = [counts EXCEPT ![p] = @ + 1]
             /\ pc' = [pc EXCEPT ![p] = "loop"]
             /\ UNCHANGED exc
    /\ UNCHANGED <<binding_vars, objects, first_run, engine_mode, op, instance, batch_size,
                   pos, obj, ret>>

\* mutant of AfterUpload: the guard reads `if result is not None:`
AfterUpload_NotNone(r) == IF r # PyNone THEN "wait" ELSE "done"

\* where reindex_all goes once the stream is exhausted and the rest of the
\* batch is sent: `if result:` guards the wait and the move
AfterUpload(r) == IF Truthy(r) THEN "wait" ELSE "done"

\* the stream is exhausted: the rest of the batch is sent; without a truthy
\* result counts is returned at once
RA_Final(p) ==
    /\ op[p] = "reindex_all" /\ pc[p] = "loop" /\ pos[p] = Len(objects)
    /\ IF Len(batch[p]) > 0
       THEN \E raised \in BOOLEAN :
            IF raised
            THEN /\ Log(Called(p, "save_objects", tmp_index, <<>>, batch[p], -1, TRUE))
                 /\ Raise(p, "save_objects")
                 /\ UNCHANGED <<engine_vars, result, ret>>
            ELSE /\ Submit(tmp_index, Write("save_objects", batch[p], EmptyDict, PyNone))
                 /\ \E r \in SaveResults(next_task) :
                     /\ Log([Called(p, "save_objects", tmp_index, <<>>, batch[p],
                                    next_task, FALSE) EXCEPT !.returned = r])
                     /\ result' = [result EXCEPT ![p] = r]
                     /\ pc' = [pc EXCEPT ![p] = AfterUpload(r)]
                     /\ ret' = [ret EXCEPT ![p] =
                                  IF AfterUpload(r) = "done" THEN counts[p] ELSE @]
                 /\ UNCHANGED exc
       ELSE /\ pc' = [pc EXCEPT ![p] = AfterUpload(result[p])]
            /\ ret' = [ret EXCEPT ![p] =
                         IF AfterUpload(result[p]) = "done" THEN counts[p] ELSE @]
            /\ UNCHANGED <<engine_vars, calls, exc, result>>
    /\ UNCHANGED <<binding_vars, objects, first_run, engine_mode, op, instance, batch_size,
                   pos, batch, counts, obj>>

\* mutant of TaskFinished: the task is never seen as finished
TaskFinished_Never(t) == t \in {}

\* whether wait_task(t) can return: the task is no longer pending
TaskFinished(t) == t \in published

\* mutant of RA_Wait: the wait on the last task left out
RA_Wait_Skipped(p) ==
    /\ op[p] = "reindex_all" /\ pc[p] = "wait"
    /\ pc' = [pc EXCEPT ![p] = "move"]
    /\ UNCHANGED <<binding_vars, objects, first_run, engine_vars, engine_mode, op, instance,
                   batch_size, pos, batch, counts, result, obj, ret, exc, calls>>

\* self.__tmp_index.wait_task(result['taskID']): returns once the task is
\* published, or raises
RA_Wait(p) ==
    /\ op[p] = "reindex_all" /\ pc[p] = "wait"
    /\ \E raised \in BOOLEAN :
        /\ raised \/ TaskFinished(result[p].d["taskID"])
        /\ Log(Called(p, "wait_task", tmp_index, <<>>, <<>>, result[p].d["taskID"], raised))
        /\ IF raised
           THEN Raise(p, "wait_task")
           ELSE pc' = [pc EXCEPT ![p] = "move"] /\ UNCHANGED exc
    /\ UNCHANGED <<binding_vars, objects, first_run, engine_vars, engine_mode, op, instance,
                   batch_size, pos, batch, counts, result, obj, ret>>

\* mutant of RA_Move: the two names of move_index exchanged
RA_Move_Swapped(p) ==
    /\ op[p] = "reindex_all" /\ pc[p] = "move"
    /\ \E raised \in BOOLEAN :
        /\ Log(Called(p, "move_index", index_name, TmpName(index_name), <<>>, -1, raised))
        /\ IF raised
           THEN Raise(p, "move_index") /\ UNCHANGED <<engine_vars, ret>>
           ELSE /\ MoveIndex(index_name, TmpName(index_name))
                /\ pc' = [pc EXCEPT ![p] = "done"]
                /\ ret' = [ret EXCEPT ![p] = counts[p]]
                /\ UNCHANGED exc
    /\ UNCHANGED <<binding_vars, objects, first_run, engine_mode, op, instance, batch_size,
                   pos, batch, counts, result, obj>>

\* self.__client.move_index(self.index_name + '_tmp', self.index_name); return counts
RA_Move(p) ==
    /\ op[p] = "reindex_all" /\ pc[p] = "move"
    /\ \E raised \in BOOLEAN :
        /\ Log(Called(p, "move_index", TmpName(index_name), index_name, <<>>, -1, raised))
        /\ IF raised
           THEN Raise(p, "move_index") /\ UNCHANGED <<engine_vars, ret>>
           ELSE /\ MoveIndex(TmpName(index_name), index_name)
                /\ pc' = [pc EXCEPT ![p] = "done"]
                /\ ret' = [ret EXCEPT ![p] = counts[p]]
                /\ UNCHANGED exc
    /\ UNCHANGED <<binding_vars, objects, first_run, engine_mode, op, instance, batch_size,
                   pos, batch, counts, result, obj>>

\* ------------------------------------------------- per-object operations
\* update_obj_index: obj = self.__build_object(instance)
Upd_Build(p) ==
    /\ op[p] = "update_obj_index" /\ pc[p] = "build"
    /\ IF build_exc(instance[p], fields, geo_field) # "none"
       THEN Raise(p, "build") /\ UNCHANGED obj
       ELSE /\ obj' = [obj EXCEPT ![p] = build_object(instance[p], fields, geo_field)]
            /\ pc' = [pc EXCEPT ![p] = "save"]
            /\ UNCHANGED exc
    /\ UNCHANGED <<binding_vars, objects, first_run, engine_vars, engine_mode, op, instance,
                   batch_size, pos, batch, counts, result, ret, calls>>

\* mutant of Upd_Save: the document goes to the shadow handle
Upd_Save_Shadow(p) ==
    /\ op[p] = "update_obj_index" /\ pc[p] = "save"
    /\ \E raised \in BOOLEAN :
        /\ Log(Called(p, "save_object", tmp_index, <<>>, <<obj[p]>>,
                      IF raised THEN -1 ELSE next_task, raised))
        /\ IF raised
           THEN Raise(p, "save_object") /\ UNCHANGED engine_vars
           ELSE /\ Submit(tmp_index, Write("save_object", <<obj[p]>>, EmptyDict, PyNone))
                /\ pc' = [pc EXCEPT ![p] = "done"]
                /\ UNCHANGED exc
    /\ UNCHANGED <<binding_vars, objects, first_run, engine_mode, op, instance, batch_size,
                   pos, batch, counts, result, obj, ret>>

\* update_obj_index: self.__index.save_object(obj)
Upd_Save(p) ==
    /\ op[p] = "update_obj_index" /\ pc[p] = "save"
    /\ \E raised \in BOOLEAN :
        /\ Log(Called(p, "save_object", index, <<>>, <<obj[p]>>,
                      IF raised THEN -1 ELSE next_task, raised))
        /\ IF raised
           THEN Raise(p, "save_object") /\ UNCHANGED engine_vars
           ELSE /\ Submit(index, Write("save_object", <<obj[p]>>, EmptyDict, PyNone))
                /\ pc' = [pc EXCEPT ![p] = "done"]
                /\ UNCHANGED exc
    /\ UNCHANGED <<binding_vars, objects, first_run, engine_mode, op, instance, batch_size,
                   pos, batch, counts, result, obj, ret>>

\* delete_obj_index: self.__index.delete_object(instance.pk)
Del_Delete(p) ==
    /\ op[p] = "delete_obj_index" /\ pc[p] = "delete"
    /\ \E raised \in BOOLEAN :
        /\ Log([Called(p, "delete_object", index, <<>>, <<>>,
                       IF raised THEN -1 ELSE next_task, raised)
                EXCEPT !.id = instance[p]["pk"]])
        /\ IF raised
           THEN Raise(p, "delete_object") /\ UNCHANGED engine_vars
           ELSE /\ Submit(index, Write("delete_object", <<>>, EmptyDict, instance[p]["pk"]))
                /\ pc' = [pc EXCEPT ![p] = "done"]
                /\ UNCHANGED exc
    /\ UNCHANGED <<binding_vars, objects, first_run, engine_mode, op, instance, batch_size,
                   pos, batch, counts, result, obj, ret>>

\* ------------------------------------------------------------ initial states
\* The records of the rebuild specification: pk i, a plain field `title`, and
\* a geo attribute `loc` that is a pair, or (a malformed record) a 1-tuple.
GoodRecord(i) ==
    [pk |-> PyVal(i), title |-> PyVal(10 + i), loc |-> PyTuple(<<PyVal(1), PyVal(2)>>)]
BadRecord(i) ==
    [pk |-> PyVal(i), title |-> PyVal(10 + i), loc |-> PyTuple(<<PyVal(1)>>)]

\* model.objects.all(): n records, the k-th malformed (none when k = 0)
Stream(n, k) == [i \in 1..n |-> IF i = k THEN BadRecord(i) ELSE GoodRecord(i)]
Streams == {Stream(n, k) : n \in 0..MaxN, k \in 0..MaxN}

\* what the primary index holds before the operation, and what an earlier
\* failed rebuild may have left in the shadow index
OldPrimary ==
    [objs |-> {[objectID |-> PyVal(0), title |-> PyVal(10)]}, settings |-> [ranking |-> 0]]
LeftoverShadow ==
    [objs |-> {[objectID |-> PyVal(99), title |-> PyVal(109)]}, settings |-> EmptyDict]

\* AlgoliaIndex.__init__ -> __set_index: the resolved names and the two handles,
\* from the index_name the class declares (declared_name), the name of the
\* model class and the ALGOLIA_INDEX_PREFIX / _SUFFIX of django.conf.settings
ModelName == <<"Model">>

InitBinding ==
    /\ declared_name \in {<<>>, <<"idx">>}
    /\ django_settings \in [ALGOLIA_INDEX_PREFIX : {<<>>, <<"pre">>},
                            ALGOLIA_INDEX_SUFFIX : {<<>>, <<"suf">>}]
    /\ index_name = set_index_name(declared_name, ModelName,
                                   django_settings.ALGOLIA_INDEX_PREFIX,
                                   django_settings.ALGOLIA_INDEX_SUFFIX)
    /\ index = index_name
    /\ tmp_index = TmpName(index_name)

InitEngine ==
    /\ \E left \in {EmptyIndex, LeftoverShadow} :
          store = [n \in {index, tmp_index} |-> IF n = index THEN OldPrimary ELSE left]
    /\ queue = [n \in {index, tmp_index} |-> <<>>]
    /\ published = {}
    /\ next_task = 1

InitLocals ==
    /\ pos = [p \in Procs |-> 0]
    /\ batch = [p \in Procs |-> <<>>]
    /\ counts = [p \in Procs |-> 0]
    /\ result = [p \in Procs |-> PyNone]
    /\ obj = [p \in Procs |-> EmptyDict]
    /\ ret = [p \in Procs |-> -1]
    /\ exc = [p \in Procs |-> "none"]
    /\ calls = <<>>
    /\ first_run = PyNone

\* One rebuild (index_all or reindex_all) by process 1, against an engine that
\* answers every save_objects with a task handle.
Init ==
    /\ InitBinding
    /\ fields = <<"title">>
    /\ geo_field = "loc"
    /\ settings \in {EmptyDict, [ranking |-> 1]}
    /\ objects \in Streams
    /\ InitEngine
    /\ engine_mode = "tasks"
    /\ \E o \in {"index_all", "reindex_all"} :
          /\ op = [p \in Procs |-> IF p = 1 THEN o ELSE "none"]
          /\ pc = [p \in Procs |-> IF p = 1 THEN "settings" ELSE "idle"]
    /\ instance = [p \in Procs |-> EmptyDict]
    /\ \E b \in 1..MaxB : batch_size = [p \in Procs |-> b]
    /\ InitLocals

Next ==
    \/ \E p \in Procs : IA_Settings(p)
    \/ \E p \in Procs : IA_Clear(p)
    \/ \E p \in Procs : IA_Next(p)
    \/ \E p \in Procs : IA_Flush(p)
    \/ \E p \in Procs : IA_Final(p)
    \/ \E p \in Procs : RA_Settings(p)
    \/ \E p \in Procs : RA_Clear(p)
    \/ \E p \in Procs : RA_Next(p)
    \/ \E p \in Procs : RA_Flush(p)
    \/ \E p \in Procs : RA_Final(p)
    \/ \E p \in Procs : RA_Wait(p)
    \/ \E p \in Procs : RA_Move(p)
    \/ \E n \in DOMAIN store : EngineApply(n)

Spec == Init /\ [][Next]_vars

\* ------------------------------------------- the per-object specification
\* A record of a model with the fields id (pk), title and objectID, the
\* methods slug() and _geoloc(), and a geo attribute loc.
ObjInstance(locattr) ==
    [a \in {"pk", "title", "slug", "objectID", "_geoloc", "loc"} |->
        CASE a = "pk" -> PyVal(7)
          [] a = "title" -> PyVal(11)
          [] a = "slug" -> PyMethod(PyVal(12))
          [] a = "objectID" -> PyVal(13)
          [] a = "_geoloc" -> PyMethod(PyVal(14))
          [] a = "loc" -> locattr]

FieldNames == {"title", "slug", "objectID", "_geoloc"}
FieldTuples == UNION {[1..n -> FieldNames] : n \in 1..MaxFields}

\* what `loc` may be: a tuple, a method returning a tuple, a method returning
\* a plain value
GeoTuples == {PyTuple([i \in 1..n |-> PyVal(i)]) : n \in 0..MaxGeoLen}
LocAttrs == GeoTuples \cup {PyMethod(t) : t \in GeoTuples} \cup {PyMethod(PyVal(5))}

\* One update_obj_index or delete_obj_index by process 1 on one record, over
\* the bindings that construction accepts.
InitObj ==
    /\ InitBinding
    /\ fields \in FieldTuples
    /\ geo_field \in {"", "loc"}
    /\ settings = [ranking |-> 1]
    /\ objects = <<>>
    /\ \E old \in {OldPrimary.objs,
                   OldPrimary.objs \cup {[objectID |-> PyVal(7), title |-> PyVal(1)]}} :
          store = [n \in {index, tmp_index} |->
                      IF n = index THEN [OldPrimary EXCEPT !.objs = old] ELSE EmptyIndex]
    /\ queue = [n \in {index, tmp_index} |-> <<>>]
    /\ published = {}
    /\ next_task = 1
    /\ engine_mode = "tasks"
    /\ \E o \in {"update_obj_index", "delete_obj_index"} :
          /\ op = [p \in Procs |-> IF p = 1 THEN o ELSE "none"]
          /\ pc = [p \in Procs |-> IF p # 1 THEN "idle"
                                   ELSE IF o = "update_obj_index" THEN "build" ELSE "delete"]
    /\ \E l \in (IF geo_field = "" THEN {PyTuple(<<PyVal(1), PyVal(2)>>)} ELSE LocAttrs) :
          instance = [p \in Procs |-> ObjInstance(l)]
    /\ batch_size = [p \in Procs |-> 1]
    /\ InitLocals

NextObj ==
    \/ \E p \in Procs : Upd_Build(p)
    \/ \E p \in Procs : Upd_Save(p)
    \/ \E p \in Procs : Del_Delete(p)
    \/ \E n \in DOMAIN store : EngineApply(n)

SpecObj == InitObj /\ [][NextObj]_vars

\* ---------------------------------------------------- reading the history
CallsOf(p, fn) == {i \in DOMAIN calls : calls[i].proc = p /\ calls[i].fn = fn}
Flushes(p) == CallsOf(p, "save_objects")
Waits(p) == CallsOf(p, "wait_task")
Moves(p) == CallsOf(p, "move_index")
Last(S) == CHOOSE x \in S : \A y \in S : y <= x

\* the calls that name index n: made on its handle, or a move from or onto it
Naming(n) == {i \in DOMAIN calls : calls[i].index = n \/ calls[i].dst = n}

\* every record of the data source builds; the documents of them all
Buildable == \A i \in DOMAIN objects : build_exc(objects[i], fields, geo_field) = "none"
AllDocs == {build_object(objects[i], fields, geo_field) : i \in DOMAIN objects}

\* ---------------------------------------------------------------- claims
\* C1: a blue/green rebuild over N >= 1 records that runs to its end has
\* invoked move exactly once; a move is from the shadow name (primary name +
\* '_tmp'), which received every upload, onto the primary name; it comes after
\* a wait_task that returned for the task handle the last flush returned; no
\* flush follows a wait or a move.
C1_MoveOnceAfterLastTask ==
    \A p \in Procs : op[p] = "reindex_all" =>
        /\ Cardinality(Moves(p)) <= 1
        /\ \A m \in Moves(p) :
            /\ calls[m].index = TmpName(index_name)
            /\ calls[m].dst = index_name
            /\ Flushes(p) # {}
            /\ \A f \in Flushes(p) :
                f < m /\ ~calls[f].raised /\ calls[f].index = calls[m].index
            /\ \E w \in Waits(p) :
                /\ Last(Flushes(p)) < w /\ w < m
                /\ ~calls[w].raised
                /\ calls[w].task = calls[Last(Flushes(p))].returned.d["taskID"]
                /\ calls[w].task \in published
        /\ \A w \in Waits(p) : \A f \in Flushes(p) : f < w
        /\ (pc[p] = "done" /\ Len(objects) >= 1) =>
               \E m \in Moves(p) : ~calls[m].raised

\* C1 witness: a rebuild of several batches has ended with its move made
C1_Witness ==
    /\ op[1] = "reindex_all" /\ pc[1] = "done"
    /\ Cardinality(Flushes(1)) >= 2
    /\ Moves(1) # {}

\* C2: a blue/green rebuild of an empty stream never invokes save_objects,
\* wait_task or move_index, and leaves the primary index (documents and
\* settings) as it was.
C2_EmptyStreamNoMove ==
    \A p \in Procs : (op[p] = "reindex_all" /\ Len(objects) = 0) =>
        /\ Flushes(p) = {} /\ Waits(p) = {} /\ Moves(p) = {}
        /\ store[index_name] = OldPrimary
        /\ queue[index_name] = <<>>

\* C2 witness: the rebuild of an empty stream has returned
C2_Witness ==
    /\ op[1] = "reindex_all" /\ Len(objects) = 0
    /\ pc[1] = "done" /\ ret[1] = 0

\* C3: throughout a blue/green rebuild the primary index holds either its
\* documents of before the rebuild or all the documents of the data source,
\* and the latter once the rebuild of a non-empty stream has ended.
C3_PrimaryOldOrComplete ==
    \A p \in Procs : op[p] = "reindex_all" =>
        /\ \/ store[index_name].objs = OldPrimary.objs
           \/ Buildable /\ store[index_name].objs = AllDocs
        /\ (pc[p] = "done" /\ Len(objects) >= 1) => store[index_name].objs = AllDocs
        /\ (pc[p] # "done") => store[index_name].objs = OldPrimary.objs

\* C3 witness: the rebuild has ended and the primary holds the complete new
\* set, which went to the shadow index in several batches
C3_Witness ==
    /\ op[1] = "reindex_all" /\ pc[1] = "done"
    /\ Cardinality(Flushes(1)) >= 2
    /\ store[index_name].objs = AllDocs
    /\ Cardinality(AllDocs) = Len(objects)

\* C4: a blue/green rebuild that failed in the settings push, the clear, a
\* document build, a flush or the wait has made no move and no call that
\* names the primary index, whose documents and settings are those of before.
C4_FailureLeavesPrimary ==
    \A p \in Procs :
        (/\ op[p] = "reindex_all" /\ pc[p] = "failed"
         /\ exc[p] \in {"set_settings", "clear_index", "build", "save_objects", "wait_task"}) =>
            /\ Moves(p) = {}
            /\ Naming(index_name) = {}
            /\ store[index_name] = OldPrimary
            /\ queue[index_name] = <<>>

\* C4 witness: the wait raised after uploads that left the shadow index filled
C4_Witness ==
    /\ op[1] = "reindex_all" /\ pc[1] = "failed" /\ exc[1] = "wait_task"
    /\ store[tmp_index].objs # {}
    /\ store[index_name] = OldPrimary

Clears(p) == CallsOf(p, "clear_index")
SettingsPushes(p) == CallsOf(p, "set_settings")
CallsBy(p) == {i \in DOMAIN calls : calls[i].proc = p}

\* ceil(n / b)
Ceil(n, b) == (n + b - 1) \div b

\* the number of documents in the batches p has handed to save_objects so far
RECURSIVE FlushedUpTo(_, _)
FlushedUpTo(p, i) ==
    IF i = 0 THEN 0
    ELSE FlushedUpTo(p, i - 1) +
         (IF calls[i].proc = p /\ calls[i].fn = "save_objects" THEN Len(calls[i].batch) ELSE 0)
Flushed(p) == FlushedUpTo(p, Len(calls))

\* C5: an index_all or reindex_all that has returned over N records with batch
\* size B has made ceil(N / B) save_objects calls (none when N = 0), whose
\* batches hold N documents together, and has returned N.
C5_FlushCountAndTotal ==
    \A p \in Procs : (op[p] \in {"index_all", "reindex_all"} /\ pc[p] = "done") =>
        /\ Cardinality(Flushes(p)) = Ceil(Len(objects), batch_size[p])
        /\ Flushed(p) = Len(objects)
        /\ ret[p] = Len(objects)

\* C5 witness: index_all has returned after a full batch and a partial one
C5_Witness ==
    /\ op[1] = "index_all" /\ pc[1] = "done"
    /\ Len(objects) = 3 /\ batch_size[1] = 2
    /\ Cardinality(Flushes(1)) = 2

\* C6: index_all clears the primary index at most once, and exactly once when
\* it goes on to the stream; the settings push, made only when the declared
\* settings are non-empty, precedes the clear, and every flush follows it.
C6_ClearOnceBeforeUpload ==
    \A p \in Procs : op[p] = "index_all" =>
        /\ Cardinality(Clears(p)) <= 1
        /\ \A c \in Clears(p) : calls[c].index = index_name
        /\ \A s \in SettingsPushes(p) :
            /\ DOMAIN settings # {}
            /\ calls[s].index = index_name
            /\ \A c \in Clears(p) : s < c
        /\ \A f \in Flushes(p) : \E c \in Clears(p) : c < f /\ ~calls[c].raised
        /\ pc[p] \in {"loop", "flush", "done"} =>
            /\ Cardinality(Clears(p)) = 1
            /\ Cardinality(SettingsPushes(p)) = (IF DOMAIN settings # {} THEN 1 ELSE 0)

\* C6 witness: index_all has returned after a settings push and several flushes
C6_Witness ==
    /\ op[1] = "index_all" /\ pc[1] = "done"
    /\ SettingsPushes(1) # {}
    /\ Cardinality(Flushes(1)) >= 2

\* C7: reindex_all makes its settings push (only with non-empty declared
\* settings), then one clear, then its flushes and its wait, all on the shadow
\* index; the only call that names the primary index is the move, its last call.
C7_ShadowOnlyInOrder ==
    \A p \in Procs : op[p] = "reindex_all" =>
        /\ \A i \in CallsBy(p) :
            calls[i].fn # "move_index" =>
                calls[i].index = TmpName(index_name) /\ calls[i].dst # index_name
        /\ Naming(index_name) \subseteq Moves(p)
        /\ \A m \in Moves(p) : m = Len(calls)
        /\ Cardinality(Clears(p)) <= 1
        /\ \A s \in SettingsPushes(p) :
            DOMAIN settings # {} /\ \A c \in Clears(p) : s < c
        /\ \A f \in Flushes(p) : \E c \in Clears(p) : c < f /\ ~calls[c].raised
        /\ pc[p] \in {"loop", "flush", "wait", "move", "done"} =>
            /\ Cardinality(Clears(p)) = 1
            /\ Cardinality(SettingsPushes(p)) = (IF DOMAIN settings # {} THEN 1 ELSE 0)

\* C7 witness: reindex_all has returned after settings, clear, flushes and move
C7_Witness ==
    /\ op[1] = "reindex_all" /\ pc[1] = "done"
    /\ SettingsPushes(1) # {} /\ Clears(1) # {}
    /\ Cardinality(Flushes(1)) >= 2
    /\ Moves(1) = {Len(calls)}

\* C8: a save_objects call that raised is the last call of its rebuild, which
\* has failed with that error: every record read so far is in a batch handed
\* to save_objects (none was read afterwards), no flush, wait_task or
\* move_index follows.
C8_FlushFailureAborts ==
    \A p \in Procs : \A f \in Flushes(p) : calls[f].raised =>
        /\ pc[p] = "failed" /\ exc[p] = "save_objects"
        /\ \A i \in CallsBy(p) : i <= f
        /\ pos[p] = Flushed(p)
        /\ Waits(p) = {} /\ Moves(p) = {}

\* C8 witness: a flush raised after an earlier one went through, with records
\* of the stream still unread
C8_Witness ==
    \E f \in Flushes(1) :
        /\ calls[f].raised
        /\ \E g \in Flushes(1) : g < f
        /\ pos[1] < Len(objects)

\* update_obj_index has its document: __build_object returned
Built(p) ==
    /\ op[p] = "update_obj_index"
    /\ pc[p] \in {"save", "done"} \/ (pc[p] = "failed" /\ exc[p] = "save_object")

\* the selector f applied to the record: invoked when callable, read otherwise
Selected(inst, f) == IF callable(inst[f]) THEN Call(inst[f]) ELSE inst[f]

\* C9: the document built from a record holds the record's primary key under
\* objectID and, under every configured field, the value of that selector
\* (the attribute invoked when callable, read otherwise).
C9_DocHoldsKeyAndFields ==
    \A p \in Procs : Built(p) =>
        /\ obj[p]["objectID"] = instance[p]["pk"]
        /\ \A i \in DOMAIN fields :
            /\ fields[i] \in DOMAIN obj[p]
            /\ obj[p][fields[i]] = Selected(instance[p], fields[i])

\* the resolved geo value is an ordered pair
GeoIsPair(inst) ==
    /\ geo_attr(inst, geo_field).ty = "tuple"
    /\ Len(geo_attr(inst, geo_field).items) = 2

\* C10: with a geo-selector configured, a build returns only for a geo value
\* of exactly 2 elements, stored as {lat: first, lng: second} under _geoloc;
\* on any other geo value the build raises.
C10_GeoPairOrFailure ==
    \A p \in Procs :
        (op[p] = "update_obj_index" /\ geo_field # "" /\ pc[p] # "build") =>
            /\ Built(p) =>
                /\ GeoIsPair(instance[p])
                /\ obj[p]["_geoloc"] =
                       [lat |-> geo_attr(instance[p], geo_field).items[1],
                        lng |-> geo_attr(instance[p], geo_field).items[2]]
            /\ ~GeoIsPair(instance[p]) => (pc[p] = "failed" /\ exc[p] = "build")

\* ------------------------------------------------ the construction specification
PyStr(x) == [ty |-> "str", s |-> x]

\* model._meta.get_all_field_names() of the model class
AllFieldNames == <<"id", "title", "objectID">>

\* model(): an instance of a model with the fields id (pk), title and
\* objectID, the methods slug() and _geoloc(), a plain class attribute const
\* and the class attribute loc; it has no attribute of any other name.
CtorInstance(locattr) ==
    [a \in {"pk", "id", "title", "slug", "objectID", "_geoloc", "const", "loc"} |->
        CASE a = "pk" -> PyNone
          [] a = "id" -> PyNone
          [] a = "title" -> PyVal(0)
          [] a = "slug" -> PyMethod(PyVal(12))
          [] a = "objectID" -> PyVal(0)
          [] a = "_geoloc" -> PyMethod(PyVal(14))
          [] a = "const" -> PyVal(3)
          [] a = "loc" -> locattr]

\* the `fields` a binding class may declare: a tuple of names, or one name as
\* a str
DeclaredNames == {"title", "slug", "const", "nope"}
DeclaredFields ==
    {PyTuple(t) : t \in UNION {[1..n -> DeclaredNames] : n \in 0..MaxFields}}
        \cup {PyStr("title"), PyStr("nope")}

\* if isinstance(self.fields, str): self.fields = (self.fields, )
as_fields(d) == IF d.ty = "str" THEN <<d.s>> ELSE d.items

\* the exception getattr(o, name) raises
getattr_exc(o, name) == IF name \in DOMAIN o THEN "none" ELSE "AttributeError"

\* the exception the loop over self.fields raises ("none" when it ends)
RECURSIVE check_fields(_, _, _)
check_fields(inst, fs, i) ==
    IF i > Len(fs) THEN "none"
    ELSE IF getattr_exc(inst, fs[i]) # "none" THEN getattr_exc(inst, fs[i])
    ELSE IF callable(inst[fs[i]]) THEN check_fields(inst, fs, i + 1)
    ELSE IF \A j \in DOMAIN AllFieldNames : AllFieldNames[j] # fs[i] THEN "AlgoliaIndexError"
    ELSE check_fields(inst, fs, i + 1)

\* the exception the geo_field check raises on the class attribute
check_geo(model, gf) ==
    IF gf = "" THEN "none"
    ELSE IF getattr_exc(model, gf) # "none" THEN getattr_exc(model, gf)
    ELSE IF ~(model[gf].ty = "tuple" \/ callable(model[gf])) THEN "AlgoliaIndexError"
    ELSE "none"

\* the exception __init__ raises after __set_index
init_exc(inst, fs, gf) ==
    IF check_fields(inst, fs, 1) # "none" THEN check_fields(inst, fs, 1)
    ELSE check_geo(inst, gf)

\* self.fields = all_fields; self.fields.remove('id')
all_but_id == SelectSeq(AllFieldNames, LAMBDA f : f # "id")

\* AlgoliaIndex.__init__ after __set_index: the declared fields and geo_field
\* are checked against an instance of the model; with no fields declared all
\* the model's fields but id are taken
Ctor(p) ==
    /\ op[p] = "__init__" /\ pc[p] = "init"
    /\ LET fs == as_fields(fields)
       IN  IF init_exc(instance[p], fs, geo_field) # "none"
           THEN /\ Raise(p, init_exc(instance[p], fs, geo_field))
                /\ fields' = fs
           ELSE /\ fields' = (IF fs = <<>> THEN all_but_id ELSE fs)
                /\ pc' = [pc EXCEPT ![p] = "constructed"]
                /\ UNCHANGED exc
    /\ UNCHANGED <<declared_name, django_settings, index_name, index, tmp_index,
                   geo_field, settings, objects, first_run, engine_vars, engine_mode, op,
                   instance, batch_size, pos, batch, counts, result, obj, ret, calls>>

\* what the class attribute loc may be: a tuple or a method
CtorLocAttrs == GeoTuples \cup {PyMethod(PyTuple(<<PyVal(1), PyVal(2)>>))}

\* One construction of a binding by process 1, over the declarations a
\* binding class may make.
InitCtor ==
    /\ InitBinding
    /\ fields \in DeclaredFields
    /\ geo_field \in {"", "loc", "const", "nope"}
    /\ settings = [ranking |-> 1]
    /\ objects = <<>>
    /\ store = [n \in {index, tmp_index} |-> IF n = index THEN OldPrimary ELSE EmptyIndex]
    /\ queue = [n \in {index, tmp_index} |-> <<>>]
    /\ published = {}
    /\ next_task = 1
    /\ engine_mode = "tasks"
    /\ op = [p \in Procs |-> IF p = 1 THEN "__init__" ELSE "none"]
    /\ pc = [p \in Procs |-> IF p = 1 THEN "init" ELSE "idle"]
    /\ \E l \in (IF geo_field = "loc" THEN CtorLocAttrs ELSE {PyTuple(<<PyVal(1), PyVal(2)>>)}) :
          instance = [p \in Procs |-> CtorInstance(l)]
    /\ batch_size = [p \in Procs |-> 1]
    /\ InitLocals

NextCtor == \E p \in Procs : Ctor(p)

SpecCtor == InitCtor /\ [][NextCtor]_vars

\* f is neither a field of the model nor a callable attribute of its instances
UnknownField(inst, f) ==
    /\ \A j \in DOMAIN AllFieldNames : AllFieldNames[j] # f
    /\ ~(f \in DOMAIN inst /\ callable(inst[f]))

\* C11: a construction whose declared fields include a name that is neither a
\* field of the model nor a callable attribute fails with AlgoliaIndexError.
C11_UnknownFieldIsIndexError ==
    \A p \in Procs :
        (/\ op[p] = "__init__" /\ pc[p] # "init"
         /\ \E i \in DOMAIN fields : UnknownField(instance[p], fields[i])) =>
            (pc[p] = "failed" /\ exc[p] = "AlgoliaIndexError")

\* C12: a construction whose fields pass and whose geo_field names a tuple of
\* other than 2 elements fails with AlgoliaIndexError; a construction with a
\* geo_field succeeds only for a 2-tuple or a callable.
C12_GeoTupleMustBePair ==
    \A p \in Procs :
        (/\ op[p] = "__init__" /\ pc[p] # "init" /\ geo_field # ""
         /\ check_fields(instance[p], fields, 1) = "none"
         /\ geo_field \in DOMAIN instance[p]) =>
            LET attr == instance[p][geo_field]
            IN  /\ (attr.ty = "tuple" /\ Len(attr.items) # 2) =>
                       (pc[p] = "failed" /\ exc[p] = "AlgoliaIndexError")
                /\ pc[p] = "constructed" =>
                       (callable(attr) \/ (attr.ty = "tuple" /\ Len(attr.items) = 2))

\* the primary name as the configuration gives it: the declared name, else
\* the model's, after the prefix and "_" if one is set, before "_" and the
\* suffix if one is set
NameWanted ==
    (IF django_settings.ALGOLIA_INDEX_PREFIX = <<>> THEN <<>>
     ELSE django_settings.ALGOLIA_INDEX_PREFIX \o <<"_">>)
    \o (IF declared_name = <<>> THEN ModelName ELSE declared_name)
    \o (IF django_settings.ALGOLIA_INDEX_SUFFIX = <<>> THEN <<>>
        ELSE <<"_">> \o django_settings.ALGOLIA_INDEX_SUFFIX)

\* C13: the primary index name is the declared name, or the model's name when
\* none is declared, wrapped as prefix + '_' + name and name + '_' + suffix
\* for the prefix and suffix that are set; it is not empty; the shadow handle,
\* every settings push, clear, flush and wait of reindex_all and the source of
\* its move bear the primary name + '_tmp', and the move goes onto the primary
\* name.
C13_NameResolution ==
    /\ index_name = NameWanted
    /\ index_name # <<>>
    /\ index = index_name
    /\ tmp_index = index_name \o <<"_tmp">>
    /\ \A p \in Procs : op[p] = "reindex_all" =>
        \A i \in CallsBy(p) :
            /\ calls[i].index = index_name \o <<"_tmp">>
            /\ calls[i].fn = "move_index" => calls[i].dst = index_name

\* C13 witness: with a prefix, a suffix and no declared name, reindex_all has
\* moved Model's shadow index
C13_Witness ==
    /\ declared_name = <<>>
    /\ index_name = <<"pre", "_", "Model", "_", "suf">>
    /\ op[1] = "reindex_all" /\ pc[1] = "done"
    /\ Moves(1) # {}

\* ------------------------------------------------------ a rebuild run twice
\* every task submitted to the engine has completed
Quiet == \A n \in DOMAIN queue : queue[n] = <<>>

\* The caller runs the same rebuild a second time, once the first has returned
\* and its tasks have completed: the locals are those of a fresh call;
\* first_run keeps what the primary index held after the first run.
Again(p) ==
    /\ op[p] \in {"index_all", "reindex_all"} /\ pc[p] = "done"
    /\ first_run = PyNone
    /\ Quiet
    /\ first_run' = store[index_name]
    /\ pc' = [pc EXCEPT ![p] = "settings"]
    /\ pos' = [pos EXCEPT ![p] = 0]
    /\ batch' = [batch EXCEPT ![p] = <<>>]
    /\ counts' = [counts EXCEPT ![p] = 0]
    /\ result' = [result EXCEPT ![p] = PyNone]
    /\ ret' = [ret EXCEPT ![p] = -1]
    /\ UNCHANGED <<binding_vars, objects, engine_vars, engine_mode, op, instance,
                   batch_size, obj, exc, calls>>

NextTwice ==
    \/ Next
    \/ \E p \in Procs : Again(p)

SpecTwice == Init /\ [][NextTwice]_vars

InitNoHandle ==
    /\ InitBinding
    /\ fields = <<"title">>
    /\ geo_field = "loc"
    /\ settings \in {EmptyDict, [ranking |-> 1]}
    /\ objects \in Streams
    /\ InitEngine
    /\ engine_mode = "any"
    /\ \E o \in {"index_all", "reindex_all"} :
          /\ op = [p \in Procs |-> IF p = 1 THEN o ELSE "none"]
          /\ pc = [p \in Procs |-> IF p = 1 THEN "settings" ELSE "idle"]
    /\ instance = [p \in Procs |-> EmptyDict]
    /\ \E b \in 1..MaxB : batch_size = [p \in Procs |-> b]
    /\ InitLocals

SpecNoHandle == InitNoHandle /\ [][Next]_vars

\* the latest save_objects of p returned, and what it returned is falsy
LastFlushFalsy(p) ==
    /\ Flushes(p) # {}
    /\ ~calls[Last(Flushes(p))].raised
    /\ ~Truthy(calls[Last(Flushes(p))].returned)

\* C15: in reindex_all, once the latest flush to the shadow has returned a
\* falsy result, the rebuild never waits and never moves; the primary keeps its
\* old contents; and a rebuild that has ended after counting all N records has
\* returned N without raising.
C15_FalsyResultSkipsMove ==
    \A p \in Procs : (op[p] = "reindex_all" /\ LastFlushFalsy(p)) =>
        /\ pc[p] \notin {"wait", "move"}
        /\ Waits(p) = {} /\ Moves(p) = {}
        /\ store[index_name] = OldPrimary
        /\ (pc[p] \in {"done", "failed"} /\ counts[p] = Len(objects)) =>
              (pc[p] = "done" /\ ret[p] = Len(objects) /\ exc[p] = "none")

\* C15 witness: several batches went to the shadow, the last answered with a
\* falsy result, and the rebuild has returned
C15_Witness ==
    /\ op[1] = "reindex_all" /\ pc[1] = "done"
    /\ Cardinality(Flushes(1)) >= 2
    /\ LastFlushFalsy(1)
    /\ ret[1] = Len(objects)
    /\ \A i \in Flushes(1) : calls[i].index = TmpName(index_name)

\* --------------------------------------------------------------- termination
\* a step of p's rebuild other than the wait on the last task
Step(p) ==
    \/ IA_Settings(p) \/ IA_Clear(p) \/ IA_Next(p) \/ IA_Flush(p) \/ IA_Final(p)
    \/ RA_Settings(p) \/ RA_Clear(p) \/ RA_Next(p) \/ RA_Flush(p) \/ RA_Final(p)
    \/ RA_Move(p)

\* wait_task returns
WaitReturns(p) == RA_Wait(p) /\ pc'[p] = "move"

\* The interpreter keeps running the rebuild: a step that can be taken is
\* taken, and wait_task returns once it can (it may raise at any time, but
\* need not). The engine finishes every task submitted to it.
Running == \A p \in Procs : WF_vars(Step(p)) /\ WF_vars(WaitReturns(p))
EngineFinishes == WF_vars(\E n \in DOMAIN store : EngineApply(n))

SpecLive == InitNoHandle /\ [][Next]_vars /\ Running /\ EngineFinishes

Ended(p) == pc[p] \in {"idle", "done", "failed"}

\* C16: every rebuild eventually ends (returned or raised), given that the
\* engine finishes every submitted task; wait_task does not return while the
\* last task is pending; and every step of a rebuild that has not ended, other
\* than the wait, can be taken at once.
C16_RebuildEnds ==
    /\ \A p \in Procs : <>Ended(p)
    /\ [][\A p \in Procs : (pc[p] = "wait" /\ pc'[p] = "move") =>
                              result[p].d["taskID"] \in published]_vars
    /\ [](\A p \in Procs : (~Ended(p) /\ pc[p] # "wait") => ENABLED Step(p))

\* C16 witness: a blue/green rebuild of a full stream has waited for its last
\* task, which the engine had finished, and has returned
C16_Witness ==
    /\ op[1] = "reindex_all" /\ pc[1] = "done"
    /\ Len(objects) = MaxN
    /\ Waits(1) # {} /\ ~calls[Last(Waits(1))].raised
    /\ calls[Last(Waits(1))].task \in published

\* ------------------------------------------------- two rebuilds at once
\* Two blue/green rebuilds of the same binding, each in its own process, over
\* the same data source and against the same engine.
InitRace ==
    /\ InitBinding
    /\ declared_name = <<>>
    /\ django_settings = [ALGOLIA_INDEX_PREFIX |-> <<"pre">>, ALGOLIA_INDEX_SUFFIX |-> <<>>]
    /\ fields = <<"title">>
    /\ geo_field = "loc"
    /\ settings = [ranking |-> 1]
    /\ \E n \in 1..MaxN : objects = [i \in 1..n |-> GoodRecord(i)]
    /\ InitEngine
    /\ engine_mode = "tasks"
    /\ op = [p \in Procs |-> "reindex_all"]
    /\ pc = [p \in Procs |-> "settings"]
    /\ instance = [p \in Procs |-> EmptyDict]
    /\ \E b \in 1..MaxB : batch_size = [p \in Procs |-> b]
    /\ InitLocals

NextRace ==
    \/ \E p \in Procs : RA_Settings(p)
    \/ \E p \in Procs : RA_Clear(p)
    \/ \E p \in Procs : RA_Next(p)
    \/ \E p \in Procs : RA_Flush(p)
    \/ \E p \in Procs : RA_Final(p)
    \/ \E p \in Procs : RA_Wait(p)
    \/ \E p \in Procs : RA_Move(p)
    \/ \E n \in DOMAIN store : EngineApply(n)

SpecRace == InitRace /\ [][NextRace]_vars

\* the latest call is p's move_index, and it went through
JustMoved(p) ==
    /\ calls # <<>>
    /\ calls[Len(calls)].proc = p
    /\ calls[Len(calls)].fn = "move_index"
    /\ ~calls[Len(calls)].raised

\* the calls by which a rebuild other than p's emptied the shadow index (a
\* clear_index, or a move_index of its own) after p's first upload
Intrusions(p) ==
    {c \in DOMAIN calls :
        /\ calls[c].proc # p
        /\ calls[c].fn \in {"clear_index", "move_index"}
        /\ ~calls[c].raised
        /\ Flushes(p) # {}
        /\ \E f \in Flushes(p) : f < c}

\* C17: nothing in a rebuild waits for another rebuild (every step but the
\* wait on its own last task can be taken whatever the other process does), and
\* when a rebuild has just moved a shadow that lacks documents of the data
\* source, another rebuild's clear (or move) of the shadow fell between this
\* rebuild's uploads and its move.
C17_NoExclusionBetweenRebuilds ==
    \A p \in Procs :
        /\ (~Ended(p) /\ pc[p] # "wait") => ENABLED Step(p)
        /\ (JustMoved(p) /\ store[index_name].objs # AllDocs) => Intrusions(p) # {}

\* C17 witness: the interleaving exists. Process 1 uploaded every batch and
\* waited for its last task, process 2 cleared the shadow before process 1
\* moved it, and the primary now misses documents of the data source.
C17_Witness ==
    /\ JustMoved(1)
    /\ store[index_name].objs # AllDocs
    /\ \E c \in Intrusions(1) : calls[c].fn = "clear_index" /\ Last(Flushes(1)) < c
    /\ \A f \in Flushes(1) : ~calls[f].raised /\ calls[f].task \in published

\* ------------------------------------------------------------ the batches
\* the batches p has handed to save_objects among the first i calls, joined in
\* call order
RECURSIVE FlushedDocsUpTo(_, _)
FlushedDocsUpTo(p, i) ==
    IF i = 0 THEN <<>>
    ELSE FlushedDocsUpTo(p, i - 1) \o
         (IF calls[i].proc = p /\ calls[i].fn = "save_objects" THEN calls[i].batch ELSE <<>>)
FlushedDocs(p) == FlushedDocsUpTo(p, Len(calls))

\* the documents of the first k records of the data source, in stream order
DocsOfFirst(k) == [i \in 1..k |-> build_object(objects[i], fields, geo_field)]

\* p's latest call is a save_objects that returned, and p has read no record
\* since
JustFlushed(p) ==
    /\ Flushes(p) # {}
    /\ Last(Flushes(p)) = Last(CallsBy(p))
    /\ ~calls[Last(Flushes(p))].raised
    /\ Flushed(p) = pos[p]

\* what C18 says of the batch apart from its being empty after a flush
BatchesInOrder(p) ==
    /\ Len(batch[p]) <= batch_size[p]
    /\ \A f \in Flushes(p) :
        /\ Len(calls[f].batch) >= 1
        /\ f # Last(Flushes(p)) => Len(calls[f].batch) = batch_size[p]
    /\ FlushedDocs(p) = DocsOfFirst(Flushed(p))
    /\ pc[p] \in {"loop", "flush"} => FlushedDocs(p) \o batch[p] = DocsOfFirst(pos[p])
    /\ pc[p] \in {"wait", "move", "done"} => Flushed(p) = Len(objects)

\* C18 as stated: in both rebuild loops the batch never exceeds B, every
\* flushed batch is non-empty and all but the last hold exactly B, the flushed
\* batches joined in order are the documents of the stream in order, each once,
\* and the batch is empty after each flush.
C18_BatchEmptyAfterEachFlush ==
    \A p \in Procs : op[p] \in {"index_all", "reindex_all"} =>
        /\ BatchesInOrder(p)
        /\ JustFlushed(p) => batch[p] = <<>>

\* C18 amended: as stated, except that the batch is empty after each flush
\* made inside the loop (a batch of exactly B); after the flush at the end of
\* the stream (fewer than B) the loop is over and the local still holds the
\* documents just sent.
C18_BatchEmptyAfterLoopFlush ==
    \A p \in Procs : op[p] \in {"index_all", "reindex_all"} =>
        /\ BatchesInOrder(p)
        /\ JustFlushed(p) =>
              IF Len(calls[Last(Flushes(p))].batch) = batch_size[p]
              THEN batch[p] = <<>>
              ELSE pc[p] # "loop" /\ batch[p] = calls[Last(Flushes(p))].batch

\* C18 witness: a full batch was flushed inside the loop, the rest at the end
\* of the stream, and the rebuild has returned with that rest still in batch
C18_Witness ==
    /\ op[1] = "index_all" /\ pc[1] = "done"
    /\ Cardinality(Flushes(1)) >= 2
    /\ JustFlushed(1)
    /\ Len(batch[1]) >= 1 /\ Len(batch[1]) < batch_size[1]

\* ------------------------------------------------ the per-object operations
\* the keys of the documents p's operation names: the objectID of the document
\* it builds, or the primary key it deletes by
Touched(p) ==
    IF op[p] = "delete_obj_index" THEN {instance[p]["pk"]}
    ELSE IF op[p] = "update_obj_index" /\ build_exc(instance[p], fields, geo_field) = "none"
    THEN {build_object(instance[p], fields, geo_field)["objectID"]}
    ELSE {}

\* every other document of the primary index
Others(p) == {o \in store[index_name].objs : o["objectID"] \notin Touched(p)}

\* p makes one call at most and has made one when it has returned; the call is
\* the single-document save of build(record), or the delete by the record's
\* primary key, on the primary handle
OneCallOnPrimary(p) ==
    /\ Cardinality(CallsBy(p)) <= 1
    /\ pc[p] = "done" => Cardinality(CallsBy(p)) = 1
    /\ Len(queue[index_name]) <= 1
    /\ \A c \in CallsBy(p) :
        /\ calls[c].index = index_name
        /\ IF op[p] = "update_obj_index"
           THEN /\ calls[c].fn = "save_object"
                /\ calls[c].batch = <<build_object(instance[p], fields, geo_field)>>
           ELSE /\ calls[c].fn = "delete_object"
                /\ calls[c].id = instance[p]["pk"]

\* once the engine has applied the call, the document is there, or gone
Applied(p) ==
    (pc[p] = "done" /\ Quiet) =>
        IF op[p] = "update_obj_index"
        THEN build_object(instance[p], fields, geo_field) \in store[index_name].objs
        ELSE \A o \in store[index_name].objs : o["objectID"] # instance[p]["pk"]

\* C19: update_obj_index issues exactly one save_object of build(record) and
\* delete_obj_index exactly one delete_object by the record's primary key, both
\* on the primary index; no step changes the shadow index, the settings of the
\* primary, or a document of the primary other than the one named.
C19_OneDocumentOnPrimary ==
    /\ [](\A p \in Procs : op[p] \in {"update_obj_index", "delete_obj_index"} =>
             OneCallOnPrimary(p) /\ Applied(p))
    /\ [][/\ store'[TmpName(index_name)] = store[TmpName(index_name)]
          /\ queue'[TmpName(index_name)] = queue[TmpName(index_name)]
          /\ store'[index_name].settings = store[index_name].settings
          /\ \A p \in Procs : op[p] \in {"update_obj_index", "delete_obj_index"} =>
                                    Others(p)' = Others(p)]_vars

\* C19 witness: update_obj_index has replaced the record's document in a
\* primary that held it and another, and the other is still there
C19_Witness ==
    /\ op[1] = "update_obj_index" /\ pc[1] = "done" /\ Quiet
    /\ obj[1]["objectID"] = instance[1]["pk"]
    /\ obj[1] \in store[index_name].objs
    /\ Cardinality(store[index_name].objs) = 2
    /\ Others(1) = OldPrimary.objs
    /\ published # {}
====
